---- MODULE Spec2Model ----
(***************************************************************************)
(* Model of the two-hop postal-code weather lookup:                        *)
(*   service-a (gateway,  cmd/service-a/main.go): getTempFromZip,          *)
(*             validateZip, getTempFromLocal, main                         *)
(*   service-b (resolver, unnamed/part_000): getTemp, getLocation,         *)
(*             getTempFromAPI, main                                        *)
(* One client request is followed through the chain.  Handlers run         *)
(* atomically between their suspension points, which are exactly the       *)
(* outbound network calls (client.Do).  Strings that the code inspects     *)
(* character by character (the postal code) are sequences of one-character *)
(* strings; float64 temperatures are integers.                             *)
(***************************************************************************)
EXTENDS Integers, Sequences, FiniteSets, TLC

\* ---------------------------------------------------------------- bounds
\* longest raw postal-code string enumerated for the validator
MaxLen == 9
\* seconds the model clock counts after an interrupt was delivered
MaxElapsed == 11

\* ------------------------------------------------------- program constants
CEP_SIZE == 8
\* context.WithTimeout(context.Background(), 10*time.Second)
ShutdownTimeout == 10
StatusOK == 200
StatusBadRequest == 400
StatusMethodNotAllowed == 405
StatusUnprocessableEntity == 422
\* weather.TempK = weather.TempC + 273
KelvinOffset == 273

\* ------------------------------------------------------------- validator
\* regexp class \d (RE2: ASCII 0-9 only)
Digits == {"0", "1", "2", "3", "4", "5", "6", "7", "8", "9"}

\* characters the validator inputs are built from: two ASCII digits, a
\* punctuation mark, and ARABIC-INDIC DIGIT THREE (a digit \d does not match)
Alphabet == {"0", "7", "-", "U+0663"}

\* re.FindAllString(zip, -1) for `\d+`: the leftmost, non-overlapping,
\* maximal runs of digits, in order.  cur is the run being scanned.
RECURSIVE FindAllScan(_, _, _, _)
FindAllScan(s, i, cur, acc) ==
  IF i > Len(s)
    THEN IF cur = <<>> THEN acc ELSE Append(acc, cur)
    ELSE IF s[i] \in Digits
           THEN FindAllScan(s, i + 1, Append(cur, s[i]), acc)
           ELSE FindAllScan(s, i + 1, <<>>, IF cur = <<>> THEN acc ELSE Append(acc, cur))

FindAllString(s) == FindAllScan(s, 1, <<>>, <<>>)

\* strings.Join(match, "")
RECURSIVE Join(_)
Join(match) == IF match = <<>> THEN <<>> ELSE Head(match) \o Join(Tail(match))

\* variant of validateZip: `len(zip) < CEP_SIZE` instead of `!=`
validateZip_lt(zip) ==
  LET joined == Join(FindAllString(zip))
  IN  IF Len(joined) < CEP_SIZE
        THEN [zip |-> <<>>, err |-> "invalid zipcode"]
        ELSE [zip |-> joined, err |-> "nil"]

validateZip(zip) ==
  LET match  == FindAllString(zip)
      joined == Join(match)
  IN  IF Len(joined) # CEP_SIZE
        THEN [zip |-> <<>>, err |-> "invalid zipcode"]
        ELSE [zip |-> joined, err |-> "nil"]


\* ------------------------------------------------------------ data types
Services == {"service-a", "service-b"}

\* type Response struct { City; TempC; TempF; TempK }
ZeroResponse == [City |-> "", TempC |-> 0, TempF |-> 0, TempK |-> 0]

\* json.NewEncoder(w).Encode(res): fields are written under their json tags
EncodeResponse(res) ==
  [city |-> res.City, temp_C |-> res.TempC, temp_F |-> res.TempF, temp_K |-> res.TempK]

\* json.NewDecoder(res.Body).Decode(&rr): tags are read back into the fields
DecodeResponse(js) ==
  [City |-> js.city, TempC |-> js.temp_C, TempF |-> js.temp_F, TempK |-> js.temp_K]

\* what a handler wrote to its http.ResponseWriter (status 0: nothing yet)
NoResp == [status |-> 0, kind |-> "none", msg |-> "", json |-> EncodeResponse(ZeroResponse)]

\* http.Error(w, msg, code): text/plain body
HttpError(msg, code) ==
  [status |-> code, kind |-> "text", msg |-> msg, json |-> EncodeResponse(ZeroResponse)]

\* Content-Type application/json; WriteHeader(200); Encode(res)
HttpJSON(res) ==
  [status |-> StatusOK, kind |-> "json", msg |-> "", json |-> EncodeResponse(res)]

\* ------------------------------------------------------ trace propagation
\* an invalid (absent) span context has all-zero ids
NoCtx == [trace |-> 0, span |-> 0]

NoHeader == [version |-> "", trace |-> 0, span |-> 0, flags |-> ""]

\* propagation.TraceContext{}.Inject: traceparent = version-traceid-spanid-flags
\* (AlwaysSample: flags 01); nothing is written for an invalid context
Inject(ctx) ==
  IF ctx.trace = 0 \/ ctx.span = 0 THEN NoHeader
  ELSE [version |-> "00", trace |-> ctx.trace, span |-> ctx.span, flags |-> "01"]

\* propagation.TraceContext{}.Extract: a well-formed traceparent becomes the
\* remote parent, anything else leaves the context without a span
Extract(h) ==
  IF h.version = "00" /\ h.trace # 0 /\ h.span # 0
    THEN [trace |-> h.trace, span |-> h.span]
    ELSE NoCtx

\* tracer.Start(ctx, name): a child of the span in ctx, or a new root (new
\* trace id) when ctx carries none.  id is the next unused identifier.
StartSpan(parent, name, id) ==
  IF parent.trace # 0
    THEN [name |-> name, trace |-> parent.trace, span |-> id, parent |-> parent.span]
    ELSE [name |-> name, trace |-> id, span |-> id + 1, parent |-> 0]

IdsUsed(parent) == IF parent.trace # 0 THEN 1 ELSE 2

CtxOf(sp) == [trace |-> sp.trace, span |-> sp.span]

\* ---------------------------------------------------------------- inputs
Methods == {"GET", "POST"}
ApiKeys == {"", "k1"}

\* traceparent headers a client may send: none, malformed, well-formed
ClientTrace == [version |-> "00", trace |-> 1, span |-> 1, flags |-> "01"]
TraceHeaders == {NoHeader, [version |-> "ff", trace |-> 1, span |-> 1, flags |-> "01"], ClientTrace}
FirstId == ClientTrace.span + 1

\* raw "cep" values a client may post
CepInputs ==
  { <<>>,
    <<"1", "2", "3">>,
    <<"0", "1", "0", "0", "1", "0", "0", "0">>,
    <<"1", "2", "3", "4", "5", "-", "6", "7", "8">>,
    <<"1", "2", "3", "4", "5", "6", "7", "8", "9">> }

\* request bodies: not decodable into CEP{}, or a JSON object with a cep string
Bodies == {[json |-> FALSE, cep |-> <<>>]} \cup {[json |-> TRUE, cep |-> c] : c \in CepInputs}

\* zip query values a client may send to service-b directly
ZipQueries == { <<"0", "1", "0", "0", "1", "0", "0", "0">>, <<"1", "2", "3">> }

NoReqA == [method |-> "", body |-> [json |-> FALSE, cep |-> <<>>], apiKey |-> "", traceparent |-> NoHeader]
NoReqB == [method |-> "", zip |-> <<>>, apiKey |-> "", traceparent |-> NoHeader, from |-> ""]

\* what the postal-code directory may answer: no answer at all, or a body
\* whose "localidade" is a city or is empty/missing
ViaCepOutcomes ==
  { [err |-> "transport", localidade |-> ""],
    [err |-> "nil", localidade |-> ""],
    [err |-> "nil", localidade |-> "Sao Paulo"] }

\* what the weather provider may answer: no answer, an unparseable body, or a
\* body with current.temp_c / current.temp_f (absent fields read as 0)
WeatherC == {-5, 0, 25}
WeatherF == {0, 23, 77, 78}
WeatherOutcomes ==
  { [err |-> "transport", temp_c |-> 0, temp_f |-> 0],
    [err |-> "parse", temp_c |-> 0, temp_f |-> 0] }
  \cup { [err |-> "nil", temp_c |-> c, temp_f |-> f] : c \in WeatherC, f \in WeatherF }

NoOutcome == [err |-> "none", localidade |-> ""]
NoWeatherOutcome == [err |-> "none", temp_c |-> 0, temp_f |-> 0]

\* ----------------------------------------------------------------- state
VARIABLES
  zin, zres,          \* validator: raw input and validateZip's result
  main, elapsed,      \* per service: main()'s position, seconds since interrupt
  reqA, gwPc, gwDo, gwRes, respA,   \* gateway: inbound request, handler position,
                                    \* client.Do result, getTempFromLocal result, response
  reqB, rsPc, viacepOut, location, weatherOut, weather, respB,  \* resolver
  calls, pending,     \* outbound network calls issued / not yet returned
  spans, nextId       \* spans started, next unused trace/span identifier

zvars == <<zin, zres>>
pvars == <<main, elapsed>>
gvars == <<reqA, gwPc, gwDo, gwRes, respA>>
rvars == <<reqB, rsPc, viacepOut, location, weatherOut, weather, respB>>
nvars == <<calls, pending, spans, nextId>>
vars == <<zin, zres, main, elapsed, reqA, gwPc, gwDo, gwRes, respA,
          reqB, rsPc, viacepOut, location, weatherOut, weather, respB,
          calls, pending, spans, nextId>>

NoZip == [zip |-> <<>>, err |-> "none"]
NoDo == [err |-> "none", resp |-> NoResp]
NoRes == [res |-> ZeroResponse, err |-> "none", decoded |-> FALSE]
NoLocation == [loc |-> "", err |-> "none"]
NoWeather == [res |-> ZeroResponse, err |-> "none"]


\* ------------------------------------------------- gateway (service-a) code
\* variant of getTempFromZipChecks: the credential test moved after the
\* shape test
getTempFromZipChecks_keyLast(req) ==
  IF req.method # "POST"
    THEN [status |-> StatusMethodNotAllowed, msg |-> "Method not allowed", zip |-> <<>>]
  ELSE IF ~req.body.json
    THEN [status |-> StatusBadRequest, msg |-> "decode error", zip |-> <<>>]
  ELSE IF validateZip(req.body.cep).err # "nil"
    THEN [status |-> StatusUnprocessableEntity, msg |-> validateZip(req.body.cep).err, zip |-> <<>>]
  ELSE IF req.apiKey = ""
    THEN [status |-> StatusBadRequest, msg |-> "api_key is required", zip |-> <<>>]
  ELSE [status |-> 0, msg |-> "", zip |-> validateZip(req.body.cep).zip]

\* variant of getTempFromZipChecks: the credential test left out
getTempFromZipChecks_noKey(req) ==
  IF req.method # "POST"
    THEN [status |-> StatusMethodNotAllowed, msg |-> "Method not allowed", zip |-> <<>>]
  ELSE IF ~req.body.json
    THEN [status |-> StatusBadRequest, msg |-> "decode error", zip |-> <<>>]
  ELSE IF validateZip(req.body.cep).err # "nil"
    THEN [status |-> StatusUnprocessableEntity, msg |-> validateZip(req.body.cep).err, zip |-> <<>>]
  ELSE [status |-> 0, msg |-> "", zip |-> validateZip(req.body.cep).zip]

\* getTempFromZip, lines 137-159: the checks before the forwarding call.
\* status 0 means every check passed and zip is the normalized code.
getTempFromZipChecks(req) ==
  IF req.method # "POST"
    THEN [status |-> StatusMethodNotAllowed, msg |-> "Method not allowed", zip |-> <<>>]
  ELSE IF ~req.body.json
    THEN [status |-> StatusBadRequest, msg |-> "decode error", zip |-> <<>>]
  ELSE IF req.apiKey = ""
    THEN [status |-> StatusBadRequest, msg |-> "api_key is required", zip |-> <<>>]
  ELSE IF validateZip(req.body.cep).err # "nil"
    THEN [status |-> StatusUnprocessableEntity, msg |-> validateZip(req.body.cep).err, zip |-> <<>>]
  ELSE [status |-> 0, msg |-> "", zip |-> validateZip(req.body.cep).zip]

\* variant of getTempFromLocalResult: the early return drops the error
getTempFromLocalResult_swallow(do) ==
  IF do.err # "nil" \/ do.resp.status # StatusOK
    THEN [res |-> ZeroResponse, err |-> "nil", decoded |-> FALSE]
    ELSE [res |-> DecodeResponse(do.resp.json), err |-> "nil", decoded |-> TRUE]

\* getTempFromLocal, lines 210-218, given what client.Do returned: a non-200
\* answer leaves through the same return as an error, with err == nil
getTempFromLocalResult(do) ==
  IF do.err # "nil" \/ do.resp.status # StatusOK
    THEN [res |-> ZeroResponse, err |-> do.err, decoded |-> FALSE]
    ELSE [res |-> DecodeResponse(do.resp.json), err |-> "nil", decoded |-> TRUE]

\* getTempFromZip, lines 163-170: the response for getTempFromLocal's result
getTempFromZipRespond(r) ==
  IF r.err # "nil" THEN HttpError(r.err, StatusBadRequest) ELSE HttpJSON(r.res)

\* ------------------------------------------------ resolver (service-b) code
\* getTemp, lines 134-144: the checks before the first lookup
getTempChecks(req) ==
  IF req.method # "GET"
    THEN [status |-> StatusMethodNotAllowed, msg |-> "Method not allowed"]
  ELSE IF req.apiKey = ""
    THEN [status |-> StatusBadRequest, msg |-> "api_key is required"]
  ELSE [status |-> 0, msg |-> ""]

\* variant of getLocationResult: the `location == ""` test left out
getLocationResult_noEmptyCheck(out) ==
  IF out.err # "nil" THEN [loc |-> "", err |-> out.err]
  ELSE [loc |-> out.localidade, err |-> "nil"]

\* getLocation, lines 173-189, given what the directory answered
getLocationResult(out) ==
  IF out.err # "nil" THEN [loc |-> "", err |-> out.err]
  ELSE IF out.localidade = "" THEN [loc |-> "", err |-> "can not find zipcode"]
  ELSE [loc |-> out.localidade, err |-> "nil"]

\* variant of getTempFromAPIResult: the `TempC == 0` test left out
getTempFromAPIResult_noZeroCheck(out) ==
  IF out.err # "nil" THEN [res |-> ZeroResponse, err |-> out.err]
  ELSE [res |-> [City |-> "", TempC |-> out.temp_c, TempF |-> out.temp_f,
                 TempK |-> out.temp_c + KelvinOffset],
        err |-> "nil"]

\* getTempFromAPI, lines 214-237, given what the weather provider answered;
\* TempF is read from the provider, TempK is computed
getTempFromAPIResult(out) ==
  IF out.err # "nil" THEN [res |-> ZeroResponse, err |-> out.err]
  ELSE LET w == [City |-> "", TempC |-> out.temp_c, TempF |-> out.temp_f,
                 TempK |-> out.temp_c + KelvinOffset]
       IN  IF w.TempC = 0
             THEN [res |-> ZeroResponse, err |-> "error getting weather, invalid API key"]
             ELSE [res |-> w, err |-> "nil"]

\* getTemp, lines 158-161: res.City = location, then the JSON response
getTempRespond(w, loc) == HttpJSON([w EXCEPT !.City = loc])

SpanNamed(n) == CHOOSE sp \in spans : sp.name = n
HasSpan(n) == \E sp \in spans : sp.name = n
Alive(s) == main[s].pc # "exited"

\* ------------------------------------------------------------------ Init
Init ==
  /\ zin = <<>> /\ zres = NoZip
  /\ main = [s \in Services |-> [pc |-> "select", signalled |-> FALSE]]
  /\ elapsed = [s \in Services |-> 0]
  /\ reqA = NoReqA /\ gwPc = "idle" /\ gwDo = NoDo /\ gwRes = NoRes /\ respA = NoResp
  /\ reqB = NoReqB /\ rsPc = "idle" /\ viacepOut = NoOutcome /\ location = NoLocation
  /\ weatherOut = NoWeatherOutcome /\ weather = NoWeather /\ respB = NoResp
  /\ calls = <<>> /\ pending = {}
  /\ spans = {} /\ nextId = FirstId

\* --------------------------------------------------------------- clients
\* a client posts to the gateway
ClientSendA ==
  /\ reqA = NoReqA /\ reqB = NoReqB
  /\ Alive("service-a")
  /\ \E m \in Methods, b \in Bodies, k \in ApiKeys, h \in TraceHeaders :
       reqA' = [method |-> m, body |-> b, apiKey |-> k, traceparent |-> h]
  /\ UNCHANGED <<zvars, pvars, gwPc, gwDo, gwRes, respA, rvars, nvars>>

\* a client calls the resolver directly
ClientSendB ==
  /\ reqA = NoReqA /\ reqB = NoReqB
  /\ Alive("service-b")
  /\ \E m \in Methods, z \in ZipQueries, k \in ApiKeys, h \in TraceHeaders :
       reqB' = [method |-> m, zip |-> z, apiKey |-> k, traceparent |-> h, from |-> "client"]
  /\ UNCHANGED <<zvars, pvars, gvars, rsPc, viacepOut, location, weatherOut, weather, respB, nvars>>

\* ------------------------------------------------------- gateway handler
\* getTempFromZip from entry to its response or, when every check passes,
\* through getTempFromLocal up to client.Do (lines 129-162, 185-210)
GetTempFromZip ==
  /\ reqA # NoReqA /\ gwPc = "idle" /\ Alive("service-a")
  /\ LET ctx     == Extract(reqA.traceparent)
         span    == StartSpan(ctx, "service-a", nextId)
         id2     == nextId + IdsUsed(ctx)
         chk     == getTempFromZipChecks(reqA)
         \* tracer.Start(context.Background(), ...): no parent in the context
         outSpan == StartSpan(NoCtx, "outgoing request to service-b", id2)
     IN  IF chk.status # 0
           THEN /\ respA' = HttpError(chk.msg, chk.status)
                /\ gwPc' = "done"
                /\ spans' = spans \cup {span}
                /\ nextId' = id2
                /\ UNCHANGED <<reqB, calls, pending>>
           ELSE /\ reqB' = [method |-> "GET", zip |-> chk.zip, apiKey |-> reqA.apiKey,
                            traceparent |-> Inject(CtxOf(outSpan)), from |-> "gateway"]
                /\ calls' = Append(calls, [to |-> "service-b", arg |-> chk.zip, key |-> reqA.apiKey])
                /\ pending' = pending \cup {"service-b"}
                /\ gwPc' = "forwarding"
                /\ spans' = spans \cup {span, outSpan}
                /\ nextId' = id2 + IdsUsed(NoCtx)
                /\ UNCHANGED respA
  /\ UNCHANGED <<zvars, pvars, reqA, gwDo, gwRes>>
  /\ UNCHANGED <<rsPc, viacepOut, location, weatherOut, weather, respB>>

\* the rest of getTempFromLocal and getTempFromZip once client.Do returned do
GatewayFinish(do) ==
  /\ gwDo' = do
  /\ gwRes' = getTempFromLocalResult(do)
  /\ respA' = getTempFromZipRespond(getTempFromLocalResult(do))
  /\ gwPc' = "done"
  /\ pending' = pending \ {"service-b"}
  /\ UNCHANGED <<zvars, pvars, reqA, rvars, calls, spans, nextId>>

\* client.Do returns an error: service-b unreachable or the connection broke
DoTransportError ==
  /\ gwPc = "forwarding" /\ Alive("service-a")
  /\ GatewayFinish([err |-> "transport", resp |-> NoResp])

\* client.Do returns service-b's response
DoResponse ==
  /\ gwPc = "forwarding" /\ Alive("service-a")
  /\ reqB.from = "gateway" /\ respB # NoResp
  /\ GatewayFinish([err |-> "nil", resp |-> respB])


\* ------------------------------------------------------ resolver handler
\* getTemp from entry to its response or, when the checks pass, through
\* getLocation up to client.Do (lines 126-147, 165-173)
GetTemp ==
  /\ reqB # NoReqB /\ rsPc = "idle" /\ Alive("service-b")
  /\ LET ctx  == Extract(reqB.traceparent)
         span == StartSpan(ctx, "service-b", nextId)
         chk  == getTempChecks(reqB)
     IN  /\ spans' = spans \cup {span}
         /\ nextId' = nextId + IdsUsed(ctx)
         /\ IF chk.status # 0
              THEN /\ respB' = HttpError(chk.msg, chk.status)
                   /\ rsPc' = "done"
                   /\ UNCHANGED <<calls, pending>>
              ELSE /\ calls' = Append(calls, [to |-> "viacep", arg |-> reqB.zip, key |-> ""])
                   /\ pending' = pending \cup {"viacep"}
                   /\ rsPc' = "locating"
                   /\ UNCHANGED respB
  /\ UNCHANGED <<zvars, pvars, gvars, reqB, viacepOut, location, weatherOut, weather>>

\* getLocation returns; getTemp answers 400 or goes on through getTempFromAPI
\* up to its client.Do (lines 173-189, 147-153, 193-214)
GetLocationReturn ==
  /\ rsPc = "locating" /\ Alive("service-b")
  /\ \E out \in ViaCepOutcomes :
       LET r    == getLocationResult(out)
           span == StartSpan(CtxOf(SpanNamed("service-b")), "outgoing request to weatherapi", nextId)
       IN  /\ viacepOut' = out
           /\ location' = r
           /\ IF r.err # "nil"
                THEN /\ respB' = HttpError(r.err, StatusBadRequest)
                     /\ rsPc' = "done"
                     /\ pending' = pending \ {"viacep"}
                     /\ UNCHANGED <<calls, spans, nextId>>
                ELSE /\ calls' = Append(calls, [to |-> "weatherapi", arg |-> r.loc, key |-> reqB.apiKey])
                     /\ pending' = (pending \ {"viacep"}) \cup {"weatherapi"}
                     /\ spans' = spans \cup {span}
                     /\ nextId' = nextId + 1
                     /\ rsPc' = "weather"
                     /\ UNCHANGED respB
  /\ UNCHANGED <<zvars, pvars, gvars, reqB, weatherOut, weather>>

\* getTempFromAPI returns; getTemp answers 400 or the aggregated JSON
\* (lines 214-237, 153-161)
GetTempFromAPIReturn ==
  /\ rsPc = "weather" /\ Alive("service-b")
  /\ \E out \in WeatherOutcomes :
       LET r == getTempFromAPIResult(out)
       IN  /\ weatherOut' = out
           /\ weather' = r
           /\ respB' = IF r.err # "nil" THEN HttpError(r.err, StatusBadRequest)
                       ELSE getTempRespond(r.res, location.loc)
  /\ rsPc' = "done"
  /\ pending' = pending \ {"weatherapi"}
  /\ UNCHANGED <<zvars, pvars, gvars, reqB, viacepOut, location, calls, spans, nextId>>

\* ------------------------------------------------------------- processes
\* the operator interrupts the process: sigCh receives, ctx is cancelled
Interrupt(s) ==
  /\ main[s].pc = "select" /\ ~main[s].signalled
  /\ main' = [main EXCEPT ![s].signalled = TRUE]
  /\ UNCHANGED <<zvars, elapsed, gvars, rvars, nvars>>

\* a second passes after the interrupt
Tick(s) ==
  /\ main[s].signalled /\ Alive(s)
  /\ elapsed[s] < MaxElapsed
  /\ elapsed' = [elapsed EXCEPT ![s] = @ + 1]
  /\ UNCHANGED <<zvars, main, gvars, rvars, nvars>>

\* main leaves the select (either case) and creates the timeout context,
\* which nothing waits on (lines 117-125 / 114-122)
MainSelect(s) ==
  /\ main[s].pc = "select" /\ main[s].signalled
  /\ main' = [main EXCEPT ![s].pc = "returning"]
  /\ UNCHANGED <<zvars, elapsed, gvars, rvars, nvars>>

\* main returns: the deferred calls run and the process exits, taking the
\* listener goroutine and every handler goroutine with it
MainReturn(s) ==
  /\ main[s].pc = "returning"
  /\ main' = [main EXCEPT ![s].pc = "exited"]
  /\ gwPc' = IF s = "service-a" /\ gwPc = "forwarding" THEN "killed" ELSE gwPc
  /\ rsPc' = IF s = "service-b" /\ rsPc \in {"locating", "weather"} THEN "killed" ELSE rsPc
  /\ UNCHANGED <<zvars, elapsed, reqA, gwDo, gwRes, respA>>
  /\ UNCHANGED <<reqB, viacepOut, location, weatherOut, weather, respB, nvars>>

Next ==
  \/ ClientSendA
  \/ ClientSendB
  \/ GetTempFromZip
  \/ DoTransportError
  \/ DoResponse
  \/ GetTemp
  \/ GetLocationReturn
  \/ GetTempFromAPIReturn
  \/ \E s \in Services : Interrupt(s)
  \/ \E s \in Services : Tick(s)
  \/ \E s \in Services : MainSelect(s)
  \/ \E s \in Services : MainReturn(s)

Spec == Init /\ [][Next]_vars

\* ----------------------------------------------- validator specification
\* validateZip applied to every raw string of at most MaxLen characters
InitZip ==
  /\ \E n \in 0..MaxLen : zin \in [1..n -> Alphabet]
  /\ zres = NoZip
  /\ main = [s \in Services |-> [pc |-> "select", signalled |-> FALSE]]
  /\ elapsed = [s \in Services |-> 0]
  /\ reqA = NoReqA /\ gwPc = "idle" /\ gwDo = NoDo /\ gwRes = NoRes /\ respA = NoResp
  /\ reqB = NoReqB /\ rsPc = "idle" /\ viacepOut = NoOutcome /\ location = NoLocation
  /\ weatherOut = NoWeatherOutcome /\ weather = NoWeather /\ respB = NoResp
  /\ calls = <<>> /\ pending = {}
  /\ spans = {} /\ nextId = FirstId

ValidateZip ==
  /\ zres = NoZip
  /\ zres' = validateZip(zin)
  /\ UNCHANGED <<zin, pvars, gvars, rvars, nvars>>

NextZip == ValidateZip

SpecZip == InitZip /\ [][NextZip]_vars


\* ================================================================ claims
\* the ASCII digits of s, in order
DigitsOf(s) == SelectSeq(s, LAMBDA c : c \in Digits)

GatewayCalls == {i \in DOMAIN calls : calls[i].to = "service-b"}
WeatherCalls == {i \in DOMAIN calls : calls[i].to = "weatherapi"}

\* C1: when a request passed the gateway's checks and service-b answered
\* non-200 because getLocation found no locality, the gateway answers 400 and
\* never a 200 JSON body.
EndToEndFailureForwarding ==
  (/\ gwPc = "done"
   /\ gwDo.err = "nil" /\ gwDo.resp.status # StatusOK
   /\ location.err = "can not find zipcode")
  => (respA.status = StatusBadRequest /\ respA.kind # "json")

\* C2: a request with an empty or absent api_key ends, on either service,
\* with 400 (405 for a wrong method) and no outbound call is ever issued for it.
FailFastOnMissingCredential ==
  /\ (reqA # NoReqA /\ reqA.apiKey = "") =>
       /\ calls = <<>> /\ pending = {}
       /\ gwPc # "idle" =>
            /\ gwPc = "done"
            /\ respA.status = (IF reqA.method # "POST" THEN StatusMethodNotAllowed
                               ELSE StatusBadRequest)
  /\ (reqB # NoReqB /\ reqB.apiKey = "") =>
       /\ calls = <<>> /\ pending = {}
       /\ rsPc # "idle" =>
            /\ rsPc = "done"
            /\ respB.status = (IF reqB.method # "GET" THEN StatusMethodNotAllowed
                               ELSE StatusBadRequest)

FailFastWitness ==
  /\ reqA.method = "POST" /\ reqA.body.json /\ reqA.apiKey = ""
  /\ Len(DigitsOf(reqA.body.cep)) = CEP_SIZE
  /\ respA = HttpError("api_key is required", StatusBadRequest)

\* C3 as stated: for every input the output of validateZip holds only digits,
\* is as long as the input has digits, is valid iff that count is 8, and when
\* valid is the input's digits in order.
ValidatorOutputAsStated ==
  zres # NoZip =>
    /\ \A i \in DOMAIN zres.zip : zres.zip[i] \in Digits
    /\ Len(zres.zip) = Len(DigitsOf(zin))
    /\ (zres.err = "nil") <=> (Len(DigitsOf(zin)) = CEP_SIZE)
    /\ zres.err = "nil" => zres.zip = DigitsOf(zin)

\* C3: validateZip succeeds iff the input has exactly 8 ASCII digits; on
\* success the output is those digits in their original order; on failure
\* the output is the empty string.
ValidatorOutput ==
  zres # NoZip =>
    /\ (zres.err = "nil") <=> (Len(DigitsOf(zin)) = CEP_SIZE)
    /\ zres.err = "nil" => zres.zip = DigitsOf(zin)
    /\ zres.err # "nil" => zres.zip = <<>>

ValidatorWitness ==
  /\ zres.err = "nil" /\ zres.zip # zin /\ Len(zres.zip) = CEP_SIZE

\* C4: in every 200 body of the resolver or the gateway, temp_K = temp_C + 273
\* and temp_F = temp_C*9/5 + 32 (stated without division: 5*F = 9*C + 160).
TemperatureDerivation ==
  \A r \in {respA, respB} :
    r.status = StatusOK =>
      /\ r.json.temp_K = r.json.temp_C + 273
      /\ 5 * r.json.temp_F = 9 * r.json.temp_C + 160

\* C5: the context the gateway injects descends from its inbound "service-a"
\* span, so the resolver's "service-b" span is in the same trace.
TraceContinuity ==
  (reqB.from = "gateway" /\ HasSpan("service-b")) =>
    /\ SpanNamed("outgoing request to service-b").trace = SpanNamed("service-a").trace
    /\ Extract(reqB.traceparent).trace = SpanNamed("service-a").trace
    /\ SpanNamed("service-b").trace = SpanNamed("service-a").trace

\* C6: a process that was interrupted does not exit while a request that was
\* in flight is still within the grace period.
GracefulShutdown ==
  /\ (main["service-a"].pc = "exited" /\ gwPc = "killed")
       => elapsed["service-a"] >= ShutdownTimeout
  /\ (main["service-b"].pc = "exited" /\ rsPc = "killed")
       => elapsed["service-b"] >= ShutdownTimeout

\* C7: getTempFromZip checks method, body, credential, postal-code shape in
\* that order; the first failing check alone gives the response (405, 400,
\* 400, 422); service-b is called only when all pass, with the normalized
\* 8-digit code and the caller's api_key.
GatewayCheckOrder ==
  (reqA # NoReqA /\ gwPc # "idle") =>
    LET digits == DigitsOf(reqA.body.cep)
        rejected(code, msg) ==
          /\ respA = HttpError(msg, code) /\ gwPc = "done"
          /\ calls = <<>> /\ reqB = NoReqB
    IN  IF reqA.method # "POST" THEN rejected(405, "Method not allowed")
        ELSE IF ~reqA.body.json THEN rejected(400, "decode error")
        ELSE IF reqA.apiKey = "" THEN rejected(400, "api_key is required")
        ELSE IF Len(digits) # 8 THEN rejected(422, "invalid zipcode")
        ELSE /\ Cardinality(GatewayCalls) = 1
             /\ calls[1] = [to |-> "service-b", arg |-> digits, key |-> reqA.apiKey]
             /\ reqB.method = "GET" /\ reqB.zip = digits /\ reqB.apiKey = reqA.apiKey

GatewayForwardWitness ==
  /\ GatewayCalls # {} /\ reqB.from = "gateway"
  /\ reqB.zip # reqA.body.cep /\ Len(reqB.zip) = CEP_SIZE

\* C8: when the call to service-b returns a transport error the gateway
\* decodes no body and answers 400, never 200.
TransportErrorTerminal ==
  gwDo.err = "transport" =>
    /\ ~gwRes.decoded
    /\ respA.status = StatusBadRequest /\ respA.kind = "text"

TransportErrorWitness ==
  /\ gwDo.err = "transport" /\ gwPc = "done" /\ respA.status = StatusBadRequest

\* C9: the weather lookup is issued only after the location lookup returned
\* a non-empty city without error, with exactly that city, never after a
\* failed location lookup, and the two lookups are never both outstanding.
SequentialFanOut ==
  /\ \A i \in WeatherCalls :
       /\ \E j \in 1..(i - 1) : calls[j].to = "viacep"
       /\ "viacep" \notin pending
       /\ viacepOut.err = "nil" /\ viacepOut.localidade # ""
       /\ location.err = "nil" /\ location.loc = viacepOut.localidade
       /\ calls[i].arg = location.loc
  /\ location.err \notin {"nil", "none"} => WeatherCalls = {}
  /\ ~({"viacep", "weatherapi"} \subseteq pending)

SequentialFanOutWitness ==
  /\ "weatherapi" \in pending /\ WeatherCalls # {}

\* C10: getTemp answers 200 only when both lookups succeeded, with the city
\* getLocation returned; when either failed (a Celsius reading of 0 included)
\* it answers 400 with no JSON body.
NoPartialResults ==
  /\ respB.status = StatusOK =>
       /\ respB.kind = "json"
       /\ viacepOut.err = "nil" /\ viacepOut.localidade # ""
       /\ weatherOut.err = "nil" /\ weatherOut.temp_c # 0
       /\ location.err = "nil" /\ weather.err = "nil"
       /\ respB.json.city = location.loc
  /\ (/\ rsPc = "done"
      /\ \/ viacepOut.err = "transport"
         \/ viacepOut.err = "nil" /\ viacepOut.localidade = ""
         \/ weatherOut.err \in {"transport", "parse"}
         \/ weatherOut.err = "nil" /\ weatherOut.temp_c = 0)
     => (respB.status = StatusBadRequest /\ respB.kind = "text")

AggregatedWitness ==
  /\ respB.status = StatusOK /\ respB.json.city = "Sao Paulo"
  /\ respB.json.temp_C = 25

====
